---------------------------- MODULE Spec2Model ----------------------------
(***************************************************************************)
(* A model of fmcardgen's rendering core (src/fmcardgen/draw.py) and of    *)
(* the configuration objects it consumes (src/fmcardgen/config.py).        *)
(*                                                                         *)
(* Strings are sequences of one-character strings, so that splitting,      *)
(* stripping and joining are computed and not assumed.  A font is a        *)
(* function from characters to advance widths; the measured width of a     *)
(* chunk is the sum of the advances of its characters.                     *)
(***************************************************************************)
EXTENDS Integers, Sequences, FiniteSets, TLC

VARIABLES
    wrap,    \* one call of wrap_font_text
    tag,     \* one call of draw_tag_field
    conf,    \* one construction of a Config
    drw      \* one call of draw

vars == <<wrap, tag, conf, drw>>

\* What a call that is not running holds.
Idle == [pc |-> "idle"]

(***************************************************************************)
(* Bounds of the model.                                                    *)
(***************************************************************************)
MaxLen == 4          \* longest text handed to wrap_font_text
MaxBudget == 3       \* largest max_width handed to wrap_font_text
MaxTags == 3         \* longest tag list handed to draw_tag_field
MaxSpacing == 2      \* largest field.spacing of a tag field
ImWidth == 6         \* width of the template image, in columns
MaxConfigFields == 2 \* most text fields of a Config under construction
MaxFields == 3       \* most text fields of the configuration draw is given

(***************************************************************************)
(* Characters and strings.                                                 *)
(***************************************************************************)
SP == " "
NL == "\n"

\* The characters str.isspace() accepts, within the model's alphabet.
Whitespace == {SP, NL}

Letters == {"a", "b"}

Alphabet == Letters \cup Whitespace

\* Every character a drawn string can hold: the alphabet of the texts, and
\* the characters of str(None), of str() of a mapping and of a datetime.
Chars == Alphabet \cup {"N", "o", "n", "e", "{", "}", "'", ":", ",", "-", "0", "1", "t", "g", "d", "x"}

RECURSIVE TextsUpTo(_)
TextsUpTo(n) ==
    IF n = 0 THEN {<<>>}
    ELSE LET shorter == TextsUpTo(n - 1)
         IN  shorter \cup {Append(t, c) : t \in {s \in shorter : Len(s) = n - 1}, c \in Alphabet}

\* str.isspace(): true when the string is non-empty and all whitespace.
IsSpace(s) == Len(s) > 0 /\ \A k \in DOMAIN s : s[k] \in Whitespace

RECURSIVE LStrip(_)
LStrip(s) ==
    IF Len(s) > 0 /\ s[1] \in Whitespace THEN LStrip(Tail(s)) ELSE s

RECURSIVE RStrip(_)
RStrip(s) ==
    IF Len(s) > 0 /\ s[Len(s)] \in Whitespace
    THEN RStrip(SubSeq(s, 1, Len(s) - 1))
    ELSE s

\* str.strip()
Strip(s) == RStrip(LStrip(s))

\* "".join(parts)
RECURSIVE Concat(_)
Concat(parts) ==
    IF parts = <<>> THEN <<>> ELSE Head(parts) \o Concat(Tail(parts))

\* sep.join(parts)
RECURSIVE Join(_, _)
Join(sep, parts) ==
    IF parts = <<>> THEN <<>>
    ELSE IF Len(parts) = 1 THEN Head(parts)
    ELSE Head(parts) \o sep \o Join(sep, Tail(parts))

\* str.split("\n"): the lines of a string.
RECURSIVE SplitLines(_)
SplitLines(s) ==
    IF \A k \in DOMAIN s : s[k] # NL THEN <<s>>
    ELSE LET k == CHOOSE j \in DOMAIN s : s[j] = NL /\ \A h \in 1..(j - 1) : s[h] # NL
         IN  <<SubSeq(s, 1, k - 1)>> \o SplitLines(SubSeq(s, k + 1, Len(s)))

(***************************************************************************)
(* Fonts: font.getsize(chunk)[0].                                          *)
(***************************************************************************)
\* ImageFont.load_default(): the built-in font, every advance one column.
LoadDefault == [c \in Chars |-> 1]

\* ImageFont.truetype(font, size) of a readable font file: advances grow
\* with the size, and "b" is a wide glyph.
TrueType(size) == [c \in Chars |-> size * (IF c = "b" THEN 2 ELSE 1)]

Fonts == {LoadDefault, TrueType(1)}

RECURSIVE GetSize(_, _)
GetSize(font, s) ==
    IF s = <<>> THEN 0 ELSE font[Head(s)] + GetSize(font, Tail(s))

(***************************************************************************)
(* textwrap.TextWrapper()._split_chunks(text), with the defaults           *)
(* expand_tabs = replace_whitespace = True: every whitespace character     *)
(* becomes a space, then the text is cut into maximal runs of whitespace   *)
(* and of non-whitespace.                                                  *)
(***************************************************************************)
MungeWhitespace(text) ==
    [k \in DOMAIN text |-> IF text[k] \in Whitespace THEN SP ELSE text[k]]

RECURSIVE SplitRuns(_)
SplitRuns(s) ==
    IF s = <<>> THEN <<>>
    ELSE LET ws == s[1] \in Whitespace
             same(k) == \A h \in 1..k : (s[h] \in Whitespace) = ws
             n == CHOOSE k \in DOMAIN s : same(k) /\ (k = Len(s) \/ ~same(k + 1))
         IN  <<SubSeq(s, 1, n)>> \o SplitRuns(SubSeq(s, n + 1, Len(s)))

SplitChunks(text) == SplitRuns(MungeWhitespace(text))

(***************************************************************************)
(* wrap_font_text: the loop over the chunks.                               *)
(***************************************************************************)
\* The locals before the first chunk.
WrapStart == [lines |-> <<>>, cur_line |-> <<>>, cur_line_width |-> 0]

\* "If this chunk makes our line too long..."
TooLongLoose(cur_line_width, width, max_width) ==
    cur_line_width + width > max_width + 1

TooLongStrict(cur_line_width, width, max_width) ==
    cur_line_width + width >= max_width

TooLong(cur_line_width, width, max_width) ==
    cur_line_width + width > max_width

\* One iteration of the loop body for `chunk`.
WrapChunk(st, font, chunk, max_width) ==
    LET width == GetSize(font, chunk)
    IN  IF TooLong(st.cur_line_width, width, max_width)
        THEN IF st.cur_line_width = 0
             THEN [lines |-> Append(st.lines, <<chunk>>),
                   cur_line |-> <<>>,
                   cur_line_width |-> 0]
             ELSE [lines |-> Append(st.lines, st.cur_line),
                   cur_line |-> IF IsSpace(chunk) THEN <<>> ELSE <<chunk>>,
                   cur_line_width |-> width]
        ELSE [lines |-> st.lines,
              cur_line |-> Append(st.cur_line, chunk),
              cur_line_width |-> st.cur_line_width + width]

\* After the loop: the pending line, if any, is the last line.
WrapFlush(st) ==
    IF st.cur_line # <<>> THEN Append(st.lines, st.cur_line) ELSE st.lines

\* "\n".join("".join(line).strip() for line in lines)
WrapJoin(lines) ==
    Join(<<NL>>, [k \in DOMAIN lines |-> Strip(Concat(lines[k]))])

RECURSIVE WrapLoop(_, _, _, _)
WrapLoop(st, font, chunks, max_width) ==
    IF chunks = <<>> THEN st
    ELSE WrapLoop(WrapChunk(st, font, Head(chunks), max_width), font, Tail(chunks), max_width)

\* The function as a whole.
WrapFontText(font, text, max_width) ==
    WrapJoin(WrapFlush(WrapLoop(WrapStart, font, SplitChunks(text), max_width)))

(***************************************************************************)
(* SpecWrap: wrap_font_text run on every input within the bounds, one      *)
(* chunk per step.                                                         *)
(***************************************************************************)
WrapInit ==
    /\ tag = Idle /\ conf = Idle /\ drw = Idle
    /\ \E font \in Fonts, text \in TextsUpTo(MaxLen), max_width \in (-1)..MaxBudget :
           wrap = [pc |-> "loop", font |-> font, text |-> text, max_width |-> max_width,
                   chunks |-> SplitChunks(text), i |-> 1,
                   st |-> WrapStart, lines |-> <<>>, result |-> <<>>]

WrapNext ==
    /\ wrap.pc = "loop"
    /\ wrap.i <= Len(wrap.chunks)
    /\ wrap' = [wrap EXCEPT !.st = WrapChunk(wrap.st, wrap.font, wrap.chunks[wrap.i], wrap.max_width),
                            !.i = wrap.i + 1]
    /\ UNCHANGED <<tag, conf, drw>>

WrapReturn ==
    /\ wrap.pc = "loop"
    /\ wrap.i > Len(wrap.chunks)
    /\ wrap' = [wrap EXCEPT !.pc = "done",
                            !.lines = WrapFlush(wrap.st),
                            !.result = WrapJoin(WrapFlush(wrap.st))]
    /\ UNCHANGED <<tag, conf, drw>>

NextWrap == WrapNext \/ WrapReturn

SpecWrap == WrapInit /\ [][NextWrap]_vars

(***************************************************************************)
(* Claims about wrap_font_text (checked under SpecWrap).                   *)
(***************************************************************************)
\* The lines of a returned string: the empty string has none.
OutputLines(s) == IF s = <<>> THEN <<>> ELSE SplitLines(s)

\* A chunk of the input that is a run of non-whitespace wider than the budget.
Oversize(k) ==
    /\ k \in DOMAIN wrap.chunks
    /\ ~IsSpace(wrap.chunks[k])
    /\ GetSize(wrap.font, wrap.chunks[k]) > wrap.max_width

\* Line `line` of the output is within the budget, or is one oversize chunk.
LineWithinBudget(line) ==
    \/ GetSize(wrap.font, line) <= wrap.max_width
    \/ \E k \in DOMAIN wrap.chunks : Oversize(k) /\ line = wrap.chunks[k]

\* Every oversize chunk is a line by itself, unchanged.
OversizeChunksAlone ==
    \A k \in DOMAIN wrap.chunks :
        Oversize(k) =>
            \E j \in DOMAIN wrap.lines :
                /\ wrap.lines[j] = <<wrap.chunks[k]>>
                /\ OutputLines(wrap.result)[j] = wrap.chunks[k]

WrapWidthContract ==
    /\ \A j \in DOMAIN OutputLines(wrap.result) :
           LineWithinBudget(OutputLines(wrap.result)[j])
    /\ OversizeChunksAlone

\* C1 as stated: for every font, text and max_width, every line of the
\* returned string is no wider than max_width, except a line that is exactly
\* one indivisible chunk wider than max_width; such a chunk is on a line by
\* itself, unchanged.
C1_AnyBudget ==
    wrap.pc = "done" => WrapWidthContract

\* C1 (amended): the same, for every max_width that is not negative.
C1_LinesWithinBudget ==
    (wrap.pc = "done" /\ wrap.max_width >= 0) => WrapWidthContract

\* C1 witness: an output with one line of several chunks within the budget
\* and another line that is a single oversize chunk.
C1_Witness ==
    /\ wrap.pc = "done"
    /\ wrap.max_width >= 0
    /\ \E j \in DOMAIN wrap.lines : Len(wrap.lines[j]) >= 2
    /\ \E k \in DOMAIN wrap.chunks :
           Oversize(k) /\ \E j \in DOMAIN wrap.lines : wrap.lines[j] = <<wrap.chunks[k]>>

\* The text is already short: its total measured width is within the budget.
AlreadyShort == GetSize(wrap.font, wrap.text) <= wrap.max_width

\* C5 as stated: wrap_font_text is the identity on already-short text.
C5_IdentityOnShort ==
    (wrap.pc = "done" /\ AlreadyShort) => wrap.result = wrap.text

\* The text neither starts nor ends with whitespace, and its only
\* whitespace characters are spaces.
PlainText(text) ==
    /\ Strip(text) = text
    /\ \A k \in DOMAIN text : text[k] # NL

\* C5 (amended): wrap_font_text is the identity on already-short text that
\* has no leading or trailing whitespace and no whitespace character other
\* than the space.
C5_IdentityOnShortPlain ==
    (wrap.pc = "done" /\ AlreadyShort /\ PlainText(wrap.text)) => wrap.result = wrap.text

\* C5 witness: a short plain text of several words came back unchanged.
C5_Witness ==
    /\ wrap.pc = "done"
    /\ AlreadyShort
    /\ PlainText(wrap.text)
    /\ Len(wrap.chunks) >= 3
    /\ wrap.result = wrap.text

\* The non-whitespace chunks of a chunk list, in order.
Words(chunks) == SelectSeq(chunks, LAMBDA c : ~IsSpace(c))

\* C10 as stated: for every text without newline characters in which every
\* whitespace chunk alone fits within max_width, the output has no empty
\* line, and the non-whitespace chunks of the input appear in the output
\* exactly once each and in the original order.
C10_NoEmptyLine ==
    ( /\ wrap.pc = "done"
      /\ \A k \in DOMAIN wrap.text : wrap.text[k] # NL
      /\ \A k \in DOMAIN wrap.chunks :
             IsSpace(wrap.chunks[k]) => GetSize(wrap.font, wrap.chunks[k]) <= wrap.max_width )
    => /\ \A j \in DOMAIN OutputLines(wrap.result) :
              Words(SplitChunks(OutputLines(wrap.result)[j])) # <<>>
       /\ Words(SplitChunks(wrap.result)) = Words(wrap.chunks)


(***************************************************************************)
(* Python values: None, integers, strings, mappings, colours, paddings.    *)
(***************************************************************************)
None == [k |-> "none"]
PyInt(n) == [k |-> "int", v |-> n]
PyStr(s) == [k |-> "str", v |-> s]
\* A mapping, as the sequence of its <<key, value>> items in insertion order.
PyMap(items) == [k |-> "map", v |-> items]
\* pathlib.Path(name)
PyPath(name) == [k |-> "path", v |-> name]
\* A list of values.
PyList(items) == [k |-> "list", v |-> items]
\* A datetime, by the digits it was parsed from.
PyDatetime(digits) == [k |-> "datetime", v |-> digits]
\* pydantic's Color: alpha is None (no alpha channel) or a percentage.
Color(rgb, alpha) == [k |-> "color", rgb |-> rgb, alpha |-> alpha]
PaddingConfig(top, left, bottom, right) ==
    [k |-> "padding", top |-> top, left |-> left, bottom |-> bottom, right |-> right]

\* bool(value), as `if value` and `value or other` compute it.
Truthy(value) ==
    CASE value.k = "none" -> FALSE
      [] value.k = "int" -> value.v # 0
      [] value.k \in {"str", "map"} -> Len(value.v) > 0
      [] OTHER -> TRUE

(***************************************************************************)
(* to_pil_color: a 3-channel colour is kept, an alpha fraction becomes     *)
(* round(a * 255), with Python's round-half-to-even.                       *)
(***************************************************************************)
RoundDiv(n, d) ==
    LET q == n \div d
        r == n % d
    IN  IF 2 * r < d THEN q
        ELSE IF 2 * r > d THEN q + 1
        ELSE IF q % 2 = 0 THEN q ELSE q + 1

ToPilColor(color) ==
    IF color.alpha = None
    THEN <<color.rgb>>
    ELSE <<color.rgb, RoundDiv(color.alpha.v * 255, 100)>>

\* The fill leaves nothing of what is under it.
Opaque(fill) == Len(fill) = 1 \/ fill[2] = 255

(***************************************************************************)
(* The image: a row of columns, each holding the calls whose paint is      *)
(* visible in it (bottom to top), and the log of the drawing calls made    *)
(* on it.  A paint is the index of its call in the log.                    *)
(***************************************************************************)
NewImage(width) ==
    [width |-> width, px |-> [c \in 0..(width - 1) |-> <<>>], calls |-> <<>>]

\* Record `call` and paint the columns `cols`; a blended paint that is not
\* opaque leaves what is under it visible.
Paint(im, call, cols, blend) ==
    LET n == Len(im.calls) + 1
    IN  [im EXCEPT !.calls = Append(@, call),
                   !.px = [c \in DOMAIN @ |->
                             IF c \notin cols THEN @[c]
                             ELSE IF blend /\ ~Opaque(call.fill) THEN Append(@[c], n)
                             ELSE <<n>>]]

\* The widest line of a text and the number of its lines: the size of the
\* box draw.textbbox and draw.textsize report for it.
RECURSIVE MaxOf(_)
MaxOf(ws) ==
    IF ws = <<>> THEN 0
    ELSE LET m == MaxOf(Tail(ws)) IN IF Head(ws) > m THEN Head(ws) ELSE m

TextWidth(font, text) ==
    MaxOf([j \in DOMAIN SplitLines(text) |-> GetSize(font, SplitLines(text)[j])])

TextHeight(text) == IF text = <<>> THEN 0 ELSE Len(SplitLines(text))

\* draw.textbbox(xy, text, font)
TextBBox(xy, text, font) ==
    <<xy[1], xy[2], xy[1] + TextWidth(font, text), xy[2] + TextHeight(text)>>

\* draw.text(xy, text, font, fill)
DrawText(im, xy, text, font, fill, blend) ==
    Paint(im, [fn |-> "text", xy |-> xy, text |-> text, font |-> font, fill |-> fill],
          xy[1]..(xy[1] + TextWidth(font, text) - 1), blend)

\* _draw_rect: the box grown by the padding, drawn on an overlay and
\* alpha-composited onto the image.
DrawRect(im, bbox, padding, color) ==
    LET x0 == bbox[1] - padding.left
        y0 == bbox[2] - padding.top
        x1 == bbox[3] + padding.right
        y1 == bbox[4] + padding.bottom
    IN  Paint(im, [fn |-> "rectangle", xy |-> <<x0, y0, x1, y1>>, fill |-> ToPilColor(color)],
              x0..x1, TRUE)

(***************************************************************************)
(* load_font                                                               *)
(***************************************************************************)
DEFAULT_FONT == "__DEFAULT__"

\* The font files that can be read.
FontFiles == {"wide.ttf"}

LoadFont(font, size) ==
    IF font = DEFAULT_FONT THEN [ok |-> TRUE, font |-> LoadDefault]
    ELSE IF font \in FontFiles THEN [ok |-> TRUE, font |-> TrueType(size)]
    ELSE [ok |-> FALSE, error |-> "FontLoadError"]

(***************************************************************************)
(* A text field of the configuration, as draw reads it.                    *)
(***************************************************************************)
Black == Color("black", None)
Glass == Color("red", PyInt(50))

BaseField ==
    [source |-> PyStr("t"), multi |-> FALSE, optional |-> FALSE, default |-> None,
     parse |-> None, format |-> None, font |-> PyStr(DEFAULT_FONT), font_size |-> 1,
     wrap |-> FALSE, max_width |-> None, x |-> 0, y |-> 0,
     fg |-> Black, bg |-> None, padding |-> PaddingConfig(0, 0, 0, 0), spacing |-> 0]

(***************************************************************************)
(* draw_tag_field                                                          *)
(***************************************************************************)
\* spacing = field.spacing + field.padding.left + field.padding.right
TagSpacingNoRight(field) == field.spacing + field.padding.left

TagSpacing(field) == field.spacing + field.padding.left + field.padding.right

\* The locals before the first tag; the isinstance assertion and load_font
\* come first and may raise.
TagBegin(im, tags, field) ==
    IF field.padding.k # "padding" THEN [ok |-> FALSE, error |-> "AssertionError"]
    ELSE LET loaded == LoadFont(field.font.v, field.font_size)
         IN  IF ~loaded.ok THEN loaded
             ELSE [ok |-> TRUE, im |-> im, font |-> loaded.font,
                   xy |-> <<field.x, field.y>>,
                   spacing |-> TagSpacing(field),
                   height |-> TextHeight(Join(<<SP>>, tags))]

\* One iteration of the loop over the tags.
TagStep(st, t, field) ==
    LET width == GetSize(st.font, t)
        boxed == IF Truthy(field.bg)
                 THEN DrawRect(st.im,
                               <<st.xy[1], st.xy[2], st.xy[1] + width, st.xy[2] + st.height>>,
                               field.padding, field.bg)
                 ELSE st.im
    IN  [st EXCEPT !.im = DrawText(boxed, st.xy, t, st.font, ToPilColor(field.fg), FALSE),
                   !.xy = <<st.xy[1] + width + st.spacing, st.xy[2]>>]

RECURSIVE TagLoop(_, _, _)
TagLoop(st, tags, field) ==
    IF tags = <<>> THEN st ELSE TagLoop(TagStep(st, Head(tags), field), Tail(tags), field)

\* The function as a whole: the image after it, or the error it raises.
DrawTagField(im, tags, field) ==
    LET st == TagBegin(im, tags, field)
    IN  IF ~st.ok THEN st ELSE [ok |-> TRUE, im |-> TagLoop(st, tags, field).im]

(***************************************************************************)
(* SpecTags: draw_tag_field run on every tag list and field within the     *)
(* bounds, one tag per step.                                               *)
(***************************************************************************)
TagTexts == {<<"a">>, <<"b", "b">>, <<"b">>}

RECURSIVE TagLists(_)
TagLists(n) ==
    IF n = 0 THEN {<<>>}
    ELSE LET shorter == TagLists(n - 1)
         IN  shorter \cup {Append(l, t) : l \in {s \in shorter : Len(s) = n - 1}, t \in TagTexts}

TagFields ==
    { [BaseField EXCEPT !.multi = TRUE, !.source = PyStr("g"),
                        !.x = x, !.y = y, !.spacing = sp, !.bg = bg, !.font = font,
                        !.padding = PaddingConfig(0, pl, 0, pr)] :
        x \in {0, 1}, y \in {0, 1}, sp \in 0..MaxSpacing, bg \in {None, Glass},
        font \in {PyStr(DEFAULT_FONT), PyPath("wide.ttf"), PyPath("missing.ttf")},
        pl \in {0, 1}, pr \in {0, 2} }

TagInit ==
    /\ wrap = Idle /\ conf = Idle /\ drw = Idle
    /\ \E tags \in TagLists(MaxTags), field \in TagFields :
           tag = [pc |-> "begin", tags |-> tags, field |-> field, i |-> 1,
                  st |-> [ok |-> TRUE, im |-> NewImage(ImWidth)], error |-> "none"]

TagEnter ==
    /\ tag.pc = "begin"
    /\ LET st == TagBegin(tag.st.im, tag.tags, tag.field)
       IN  tag' = IF st.ok
                  THEN [tag EXCEPT !.pc = "loop", !.st = st]
                  ELSE [tag EXCEPT !.pc = "raised", !.error = st.error]
    /\ UNCHANGED <<wrap, conf, drw>>

TagNext ==
    /\ tag.pc = "loop"
    /\ tag.i <= Len(tag.tags)
    /\ tag' = [tag EXCEPT !.st = TagStep(tag.st, tag.tags[tag.i], tag.field),
                          !.i = tag.i + 1]
    /\ UNCHANGED <<wrap, conf, drw>>

TagReturn ==
    /\ tag.pc = "loop"
    /\ tag.i > Len(tag.tags)
    /\ tag' = [tag EXCEPT !.pc = "done"]
    /\ UNCHANGED <<wrap, conf, drw>>

NextTags == TagEnter \/ TagNext \/ TagReturn

SpecTags == TagInit /\ [][NextTags]_vars

(***************************************************************************)
(* Claims about draw_tag_field (checked under SpecTags).                   *)
(***************************************************************************)
\* The text calls made on the image, in order.
TextCalls(im) == SelectSeq(im.calls, LAMBDA c : c.fn = "text")

RECURSIVE SumWidths(_, _, _)
SumWidths(font, tags, n) ==
    IF n = 0 THEN 0 ELSE SumWidths(font, tags, n - 1) + GetSize(font, tags[n])

Unset == [k |-> "unset"]

\* A padding given as a table: the keys present, with their values.
PyDict(d) == [k |-> "dict", v |-> d]

Padding(horizontal, vertical, top, left, bottom, right) ==
    [k |-> "padding", horizontal |-> horizontal, vertical |-> vertical,
     top |-> top, left |-> left, bottom |-> bottom, right |-> right]

Key(d, key) == IF key \in DOMAIN d THEN d[key] ELSE 0

\* Padding built from the given keys: the pre root validator check_padding, then the fields.
NewPadding(values) ==
    IF \/ "horizontal" \in DOMAIN values /\ {"left", "right"} \cap DOMAIN values # {}
       \/ "vertical" \in DOMAIN values /\ {"top", "bottom"} \cap DOMAIN values # {}
    THEN [ok |-> FALSE, error |-> "ValidationError"]
    ELSE [ok |-> TRUE,
          value |-> Padding(Key(values, "horizontal"), Key(values, "vertical"),
                            IF "vertical" \in DOMAIN values THEN values.vertical ELSE Key(values, "top"),
                            IF "horizontal" \in DOMAIN values THEN values.horizontal ELSE Key(values, "left"),
                            IF "vertical" \in DOMAIN values THEN values.vertical ELSE Key(values, "bottom"),
                            IF "horizontal" \in DOMAIN values THEN values.horizontal ELSE Key(values, "right"))]

\* FieldOption.check_padding, the validator of a supplied padding.
CheckPadding(value) ==
    IF value.k # "padding"
    THEN NewPadding([top |-> value.v, left |-> value.v, bottom |-> value.v, right |-> value.v]).value
    ELSE value

\* The padding attribute of a FieldOption: Union[Padding, int] = 0.
FieldPadding(given) ==
    IF given = Unset THEN [ok |-> TRUE, value |-> PyInt(0)]
    ELSE IF given.k = "dict"
    THEN LET made == NewPadding(given.v)
         IN  IF made.ok THEN [ok |-> TRUE, value |-> CheckPadding(made.value)] ELSE made
    ELSE [ok |-> TRUE, value |-> CheckPadding(given)]

\* An Optional attribute: None when left out.
OrNone(given) == IF given = Unset THEN None ELSE given

\* FieldOption built from the given keys
NewFieldOption(given) ==
    LET padding == FieldPadding(given.padding)
    IN  IF ~padding.ok THEN padding
        ELSE [ok |-> TRUE,
              value |-> [source |-> given.source, optional |-> FALSE, default |-> None,
                         x |-> given.x, y |-> given.y,
                         font |-> OrNone(given.font), font_size |-> OrNone(given.font_size),
                         fg |-> OrNone(given.fg), bg |-> OrNone(given.bg),
                         padding |-> padding.value]]

\* DefaultOptions built from the given keys
NewDefaultOptions(given) ==
    [font |-> IF given.font = Unset THEN PyStr("default") ELSE given.font,
     font_size |-> IF given.font_size = Unset THEN PyInt(40) ELSE given.font_size,
     fg |-> IF given.fg = Unset THEN Black ELSE given.fg,
     bg |-> OrNone(given.bg),
     padding |-> IF given.padding = Unset THEN PyInt(0) ELSE given.padding]

\* The attributes of DefaultOptions, in the order iterating it yields them.
DefaultKeys == <<"font", "font_size", "fg", "bg", "padding">>

\* The default of Config.text_fields: [FieldOption(x=0, y=0, source="title")].
DefaultTextFields ==
    <<NewFieldOption([source |-> "title", x |-> 0, y |-> 0, font |-> Unset,
                      font_size |-> Unset, fg |-> Unset, bg |-> Unset, padding |-> Unset]).value>>

\* BaseModel.__init__ of Config: every given field validated.
ValidateConfig(given) ==
    LET made == [n \in DOMAIN given.fields |-> NewFieldOption(given.fields[n])]
    IN  IF \E n \in DOMAIN made : ~made[n].ok
        THEN [ok |-> FALSE, error |-> "ValidationError"]
        ELSE [ok |-> TRUE,
              defaults |-> NewDefaultOptions(given.defaults),
              fonts |-> given.fonts,
              text_fields |-> IF given.fields = <<>> THEN DefaultTextFields
                              ELSE [n \in DOMAIN made |-> made[n].value]]

\* Config._update_text_fields_from_defaults, for one field.
RECURSIVE CopyDefaults(_, _, _)
CopyDefaults(text_field, defaults, keys) ==
    IF keys = <<>> THEN text_field
    ELSE LET key == Head(keys)
             copied == IF text_field[key] = None
                       THEN [text_field EXCEPT ![key] = defaults[key]]
                       ELSE text_field
         IN  CopyDefaults(copied, defaults, Tail(keys))

UpdateTextFieldsFromDefaults(text_fields, defaults) ==
    [n \in DOMAIN text_fields |-> CopyDefaults(text_fields[n], defaults, DefaultKeys)]

\* str.lower() of the font names of the model.
Lower(name) ==
    CASE name = "Default" -> "default"
      [] name = "Roboto" -> "roboto"
      [] OTHER -> name

\* Config._set_fonts: the table of font names, then each field's font looked
\* up in it (under the name as written) or taken as a path.
SetFonts(text_fields, fonts) ==
    IF \E n \in DOMAIN fonts : fonts[n].name = None
    THEN [ok |-> FALSE, error |-> "AttributeError"]
    ELSE LET names == {Lower(fonts[n].name.v) : n \in DOMAIN fonts} \cup {"default"}
             last(name) == CHOOSE n \in DOMAIN fonts :
                               /\ Lower(fonts[n].name.v) = name
                               /\ \A m \in DOMAIN fonts : Lower(fonts[m].name.v) = name => m <= n
             table(name) == IF name = "default" THEN PyStr(DEFAULT_FONT)
                            ELSE PyPath(fonts[last(name)].path)
         IN  IF \E n \in DOMAIN text_fields :
                    /\ Lower(text_fields[n].font.v) \in names
                    /\ text_fields[n].font.v \notin names
             THEN [ok |-> FALSE, error |-> "KeyError"]
             ELSE [ok |-> TRUE,
                   text_fields |-> [n \in DOMAIN text_fields |->
                       [text_fields[n] EXCEPT !.font =
                            IF Lower(@.v) \in names THEN table(@.v) ELSE PyPath(@.v)]]]

(***************************************************************************)
(* SpecConfig: the construction of a Config for every configuration within the bounds.  *)
(***************************************************************************)
GivenPaddings ==
    { Unset, PyInt(0), PyInt(2),
      PyDict([horizontal |-> 1]), PyDict([vertical |-> 2]),
      PyDict([top |-> 1, left |-> 2, bottom |-> 3, right |-> 4]),
      PyDict([horizontal |-> 1, left |-> 2]) }

GivenStyles ==
    { [font_size |-> Unset, fg |-> Unset, bg |-> Unset],
      [font_size |-> PyInt(12), fg |-> Glass, bg |-> Glass] }

GivenFields ==
    { [source |-> "title", x |-> 0, y |-> 0, font |-> font, font_size |-> style.font_size,
       fg |-> style.fg, bg |-> style.bg, padding |-> padding] :
        font \in {Unset, PyStr("Default"), PyStr("wide.ttf")},
        style \in GivenStyles, padding \in GivenPaddings }

GivenDefaults ==
    { [font |-> font, font_size |-> style.font_size, fg |-> style.fg, bg |-> style.bg,
       padding |-> padding] :
        font \in {Unset, PyStr("roboto")},
        style \in {[font_size |-> Unset, fg |-> Unset, bg |-> Unset],
                   [font_size |-> PyInt(20), fg |-> Glass, bg |-> Black]},
        padding \in {Unset, PyInt(3)} }

GivenFonts ==
    { <<>>, <<[name |-> PyStr("Roboto"), path |-> "wide.ttf"]>>, <<[name |-> None, path |-> "wide.ttf"]>> }

RECURSIVE FieldLists(_)
FieldLists(n) ==
    IF n = 0 THEN {<<>>}
    ELSE LET shorter == FieldLists(n - 1)
         IN  shorter \cup {Append(l, f) : l \in {s \in shorter : Len(s) = n - 1}, f \in GivenFields}

ConfInit ==
    /\ wrap = Idle /\ tag = Idle /\ drw = Idle
    /\ \E fields \in FieldLists(MaxConfigFields), defaults \in GivenDefaults, fonts \in GivenFonts :
           conf = [pc |-> "validate",
                   given |-> [fields |-> fields, defaults |-> defaults, fonts |-> fonts],
                   defaults |-> None, fonts |-> <<>>, text_fields |-> <<>>, error |-> "none"]

\* the call of BaseModel.__init__
ConfValidate ==
    /\ conf.pc = "validate"
    /\ LET made == ValidateConfig(conf.given)
       IN  conf' = IF made.ok
                   THEN [conf EXCEPT !.pc = "defaults", !.defaults = made.defaults,
                                     !.fonts = made.fonts, !.text_fields = made.text_fields]
                   ELSE [conf EXCEPT !.pc = "raised", !.error = made.error]
    /\ UNCHANGED <<wrap, tag, drw>>

\* self._update_text_fields_from_defaults()
ConfUpdateDefaults ==
    /\ conf.pc = "defaults"
    /\ conf' = [conf EXCEPT !.pc = "fonts",
                            !.text_fields = UpdateTextFieldsFromDefaults(@, conf.defaults)]
    /\ UNCHANGED <<wrap, tag, drw>>

\* self._set_fonts()
ConfSetFonts ==
    /\ conf.pc = "fonts"
    /\ LET set == SetFonts(conf.text_fields, conf.fonts)
       IN  conf' = IF set.ok
                   THEN [conf EXCEPT !.pc = "done", !.text_fields = set.text_fields]
                   ELSE [conf EXCEPT !.pc = "raised", !.error = set.error]
    /\ UNCHANGED <<wrap, tag, drw>>

NextConfig == ConfValidate \/ ConfUpdateDefaults \/ ConfSetFonts

SpecConfig == ConfInit /\ [][NextConfig]_vars

(***************************************************************************)
(* Claims about the constructed Config (checked under SpecConfig).         *)
(***************************************************************************)
\* The configuration of text field n (the built-in field when none is given).
GivenField(n) ==
    IF conf.given.fields = <<>>
    THEN [source |-> "title", x |-> 0, y |-> 0, font |-> Unset, font_size |-> Unset,
          fg |-> Unset, bg |-> Unset, padding |-> Unset]
    ELSE conf.given.fields[n]

\* C6: after a Config is constructed, every text field's padding is in the
\* four-sided form, never a bare scalar, however the padding was given
\* (omitted, an integer, horizontal/vertical shorthand, four-sided).
C6_PaddingNormalized ==
    conf.pc = "done" =>
        \A n \in DOMAIN conf.text_fields : conf.text_fields[n].padding.k = "padding"

\* The font a name or path stands for once _set_fonts has run.
ResolvedFont(font) ==
    IF font.v = "default" THEN PyStr(DEFAULT_FONT)
    ELSE IF \E m \in DOMAIN conf.fonts : Lower(conf.fonts[m].name.v) = font.v
    THEN PyPath("wide.ttf")
    ELSE PyPath(font.v)

\* C7: after a Config is constructed, for every text field and every
\* attribute among font, font_size, fg, bg and padding: an attribute the
\* field's configuration left unset equals the value of the global defaults
\* record, and one it set keeps the field's own value (the font under the
\* name resolution of _set_fonts, the padding in its four-sided form).
C7_DefaultsInherited ==
    conf.pc = "done" =>
        \A n \in DOMAIN conf.text_fields :
            /\ \A key \in {"font_size", "fg", "bg"} :
                   conf.text_fields[n][key] =
                       IF GivenField(n)[key] = Unset THEN conf.defaults[key] ELSE GivenField(n)[key]
            /\ conf.text_fields[n].font =
                   ResolvedFont(IF GivenField(n).font = Unset THEN conf.defaults.font
                                ELSE GivenField(n).font)
            /\ conf.text_fields[n].padding =
                   IF GivenField(n).padding = Unset THEN conf.defaults.padding
                   ELSE FieldPadding(GivenField(n).padding).value
            /\ conf.text_fields[n].fg # None


(***************************************************************************)
(* str(value) and str.format, on the values of the model.                  *)
(***************************************************************************)
Quoted(s) == <<"'">> \o s \o <<"'">>

RECURSIVE ReprItems(_)
ReprItems(items) ==
    IF items = <<>> THEN <<>>
    ELSE Quoted(<<Head(items)[1]>>) \o <<":", SP>> \o Quoted(Head(items)[2].v)
         \o (IF Len(items) > 1 THEN <<",", SP>> ELSE <<>>) \o ReprItems(Tail(items))

\* str(value): a string is itself, None is "None", a mapping is its repr,
\* a datetime its date and time.
StrOf(value) ==
    CASE value.k = "none" -> <<"N", "o", "n", "e">>
      [] value.k = "str" -> value.v
      [] value.k = "datetime" -> <<"0">> \o value.v \o <<SP, "0", "0", ":", "0", "0">>
      [] value.k = "map" -> <<"{">> \o ReprItems(value.v) \o <<"}">>

\* mapping.get(key, otherwise)
MapGet(mapping, key, otherwise) ==
    IF \E n \in DOMAIN mapping.v : mapping.v[n][1] = key
    THEN mapping.v[CHOOSE n \in DOMAIN mapping.v : mapping.v[n][1] = key][2]
    ELSE otherwise

\* A format string is the sequence of its segments: literal text, a
\* positional replacement field and a named replacement field.
Lit(chars) == [k |-> "lit", v |-> chars]
Pos(n) == [k |-> "pos", v |-> n]
Name(key) == [k |-> "name", v |-> key]

\* template.format(*args, **kwargs): a replacement field that names no
\* argument raises (IndexError, KeyError).
RECURSIVE Format(_, _, _)
Format(segments, args, kwargs) ==
    IF segments = <<>> THEN [ok |-> TRUE, value |-> <<>>]
    ELSE LET seg == Head(segments)
             rest == Format(Tail(segments), args, kwargs)
             here == CASE seg.k = "lit" -> [ok |-> TRUE, value |-> seg.v]
                       [] seg.k = "pos" ->
                            IF seg.v + 1 \in DOMAIN args
                            THEN [ok |-> TRUE, value |-> StrOf(args[seg.v + 1])]
                            ELSE [ok |-> FALSE, error |-> "FormatError"]
                       [] seg.k = "name" ->
                            IF MapGet(PyMap(kwargs), seg.v, Unset) # Unset
                            THEN [ok |-> TRUE, value |-> StrOf(MapGet(PyMap(kwargs), seg.v, Unset))]
                            ELSE [ok |-> FALSE, error |-> "FormatError"]
         IN  IF ~here.ok THEN here
             ELSE IF ~rest.ok THEN rest
             ELSE [ok |-> TRUE, value |-> here.value \o rest.value]

(***************************************************************************)
(* frontmatter.py: the resolution of a field's value from the metadata.    *)
(***************************************************************************)
Digits == {"0", "1"}

\* dateutil.parser.parse
DateutilParse(value) ==
    IF value.k = "str" /\ value.v # <<>> /\ \A n \in DOMAIN value.v : value.v[n] \in Digits
    THEN [ok |-> TRUE, value |-> PyDatetime(value.v)]
    ELSE [ok |-> FALSE, error |-> "ParseError"]

Parsed(value, parser) ==
    IF parser = "dateutil" THEN DateutilParse(value) ELSE [ok |-> TRUE, value |-> value]

GetFrontmatterValue(fm, source, default, missing_ok, parser) ==
    IF source \in DOMAIN fm THEN Parsed(fm[source], parser)
    ELSE IF ~missing_ok THEN [ok |-> FALSE, error |-> "MissingFieldError"]
    ELSE [ok |-> TRUE, value |-> default]

GetFrontmatterList(fm, source, default, missing_ok, parser) ==
    IF source \in DOMAIN fm
    THEN LET each == [n \in DOMAIN fm[source].v |-> Parsed(fm[source].v[n], parser)]
         IN  IF \E n \in DOMAIN each : ~each[n].ok
             THEN [ok |-> FALSE, error |-> "ParseError"]
             ELSE [ok |-> TRUE, value |-> [n \in DOMAIN each |-> each[n].value]]
    ELSE IF ~missing_ok THEN [ok |-> FALSE, error |-> "MissingFieldError"]
    ELSE [ok |-> TRUE, value |-> <<default>>]

GetFrontmatterFormatted(fm, format, sources, defaults, missing_ok) ==
    LET each == [n \in DOMAIN sources |->
                    GetFrontmatterValue(fm, sources[n], MapGet(defaults, sources[n], None),
                                        missing_ok, "none")]
    IN  IF \E n \in DOMAIN each : ~each[n].ok
        THEN [ok |-> FALSE, error |-> "MissingFieldError"]
        ELSE Format(format, <<>>, [n \in DOMAIN sources |-> <<sources[n], each[n].value>>])

(***************************************************************************)
(* draw_text_field                                                         *)
(***************************************************************************)
\* max_width = field.max_width if field.max_width else im.width - field.x
WrapBudgetIfSet(im, field) ==
    IF field.max_width # None THEN field.max_width.v ELSE im.width - field.x

WrapBudget(im, field) ==
    IF Truthy(field.max_width) THEN field.max_width.v ELSE im.width - field.x

\* The rectangle, when the field has a background, and the text.
TextThenRect(im, text, font, field) ==
    LET written == DrawText(im, <<field.x, field.y>>, text, font, ToPilColor(field.fg), TRUE)
    IN  IF Truthy(field.bg)
        THEN DrawRect(written, TextBBox(<<field.x, field.y>>, text, font), field.padding, field.bg)
        ELSE written

RectThenText(im, text, font, field) ==
    LET boxed == IF Truthy(field.bg)
                 THEN DrawRect(im, TextBBox(<<field.x, field.y>>, text, font),
                               field.padding, field.bg)
                 ELSE im
    IN  DrawText(boxed, <<field.x, field.y>>, text, font, ToPilColor(field.fg), TRUE)

DrawTextField(im, text, field) ==
    LET loaded == LoadFont(field.font.v, field.font_size)
    IN  IF ~loaded.ok THEN loaded
        ELSE LET wrapped == IF field.wrap
                            THEN WrapFontText(loaded.font, text, WrapBudget(im, field))
                            ELSE text
             IN  IF Truthy(field.bg) /\ field.padding.k # "padding"
                 THEN [ok |-> FALSE, error |-> "AssertionError"]
                 ELSE [ok |-> TRUE, im |-> RectThenText(im, wrapped, loaded.font, field)]

(***************************************************************************)
(* draw: the three branches of the loop body.                              *)
(***************************************************************************)
\* parser = dateutil.parser.parse if field.parse == "datetime" else None
Parser(field) == IF field.parse = PyStr("datetime") THEN "dateutil" ELSE "none"

\* Each value formatted with itself as the positional argument and under
\* the source key.
RECURSIVE FormatEach(_, _, _)
FormatEach(segments, key, values) ==
    IF values = <<>> THEN [ok |-> TRUE, value |-> <<>>]
    ELSE LET here == Format(segments, <<Head(values)>>, <<<<key, Head(values)>>>>)
             rest == FormatEach(segments, key, Tail(values))
         IN  IF ~here.ok THEN here
             ELSE IF ~rest.ok THEN rest
             ELSE [ok |-> TRUE, value |-> <<PyStr(here.value)>> \o rest.value]

\* The default handed to get_frontmatter_list: str(field.default).
MultiDefault(field) == PyStr(StrOf(field.default))

\* field.multi: the list of values, formatted one by one.
ResolveMulti(fm, field) ==
    LET values == GetFrontmatterList(fm, field.source.v, MultiDefault(field),
                                     field.optional, Parser(field))
    IN  IF values.ok /\ Truthy(field.format)
        THEN FormatEach(field.format.v, field.source.v, values.value)
        ELSE values

\* The per-source defaults of a field whose source is a list.
SourceDefaults(field) ==
    IF field.default.k = "map" THEN field.default
    ELSE PyMap([n \in DOMAIN field.source.v |->
                   <<field.source.v[n], IF Truthy(field.default) THEN field.default ELSE PyStr(<<>>)>>])

\* isinstance(field.source, list): one string formatted from all sources;
\* the format is str(field.format).
ResolveFormatted(fm, field) ==
    LET made == GetFrontmatterFormatted(
                    fm,
                    IF field.format = None THEN <<Lit(StrOf(None))>> ELSE field.format.v,
                    field.source.v, SourceDefaults(field), field.optional)
    IN  IF made.ok THEN [ok |-> TRUE, value |-> PyStr(made.value)] ELSE made

\* A single source: its value, formatted when the field has a format.
ResolveValue(fm, field) ==
    LET value == GetFrontmatterValue(
                     fm, field.source.v,
                     IF field.default.k = "map" THEN MapGet(field.default, field.source.v, None)
                     ELSE field.default,
                     field.optional, Parser(field))
    IN  IF value.ok /\ Truthy(field.format)
        THEN LET made == Format(field.format.v, <<value.value>>,
                                <<<<field.source.v, value.value>>>>)
             IN  IF made.ok THEN [ok |-> TRUE, value |-> PyStr(made.value)] ELSE made
        ELSE value

\* An exception leaves draw: nothing is returned and the loop is over.
RaiseAndCarryOn(d, error) ==
    [d EXCEPT !.error = error, !.i = @ + 1, !.marks = Append(@, 0), !.values = Append(@, None)]

Raise(d, error) == [d EXCEPT !.pc = "raised", !.error = error]

\* A field is done: the loop goes on to the next one.
Drawn(d, value, im) ==
    [d EXCEPT !.i = @ + 1, !.im = im, !.values = Append(@, value),
              !.marks = Append(@, Len(im.calls))]

(***************************************************************************)
(* SpecDraw and SpecResolve: draw run on configurations of several fields  *)
(* and on every single-field configuration of a wider choice of fields.    *)
(***************************************************************************)
Metadatas ==
    { [key \in keys |->
          CASE key = "t" -> PyStr(<<"a", SP, "b">>)
            [] key = "g" -> g
            [] key = "d" -> d] :
        keys \in SUBSET {"t", "g", "d"},
        g \in {PyList(<<>>), PyList(<<PyStr(<<"a">>), PyStr(<<"b", "b">>)>>)},
        d \in {PyStr(<<"1">>), PyStr(<<"x">>)} }

\* A single source, a tag field and a field formatted from two sources.
ValueField == [BaseField EXCEPT !.source = PyStr("t")]
MultiField == [BaseField EXCEPT !.source = PyStr("g"), !.multi = TRUE]
FormattedField ==
    [BaseField EXCEPT !.source = PyList(<<"t", "d">>),
                      !.format = PyStr(<<Name("t"), Lit(<<"-">>), Name("d")>>)]

Defaults(keys) ==
    { None, PyStr(<<"b">>), PyMap([n \in DOMAIN keys |-> <<keys[n], PyStr(<<"b", "a">>)>>]) }

\* The fields that differ in how their value is resolved.
ResolutionFields ==
    { [ValueField EXCEPT !.optional = o, !.default = d] : o \in BOOLEAN, d \in Defaults(<<"t">>) }
    \cup { [MultiField EXCEPT !.optional = o, !.default = d] : o \in BOOLEAN, d \in Defaults(<<"g">>) }
    \cup { [FormattedField EXCEPT !.optional = o, !.default = d] :
              o \in BOOLEAN, d \in Defaults(<<"t", "d">>) }

\* The fields that differ in how their text is wrapped.
WrapFields ==
    { [ValueField EXCEPT !.wrap = w, !.max_width = m, !.x = x] :
        w \in BOOLEAN, m \in {None, PyInt(0), PyInt(1), PyInt(2)}, x \in {0, 4} }

\* The fields whose resolution, parsing, formatting or font fails.
FailingFields ==
    { [ValueField EXCEPT !.optional = TRUE, !.default = PyStr(<<"b">>), !.x = 3,
                         !.format = PyStr(<<Pos(0), Name("x")>>)],
      [ValueField EXCEPT !.source = PyStr("d"), !.optional = TRUE, !.default = PyStr(<<"1">>),
                         !.x = 3, !.parse = PyStr("datetime"), !.format = PyStr(<<Pos(0)>>)],
      [ValueField EXCEPT !.optional = TRUE, !.default = PyStr(<<"b">>), !.x = 3,
                         !.font = PyPath("missing.ttf")] }

\* The fields of the configurations of several fields: they fail in every
\* way and cover each other.
DrawFields ==
    FailingFields \cup
    { ValueField,
      [ValueField EXCEPT !.optional = TRUE, !.default = PyStr(<<"b">>), !.x = 1,
                         !.font = PyPath("wide.ttf"), !.bg = Glass,
                         !.padding = PaddingConfig(0, 1, 0, 1)],
      [ValueField EXCEPT !.optional = TRUE, !.default = PyStr(<<"b">>), !.x = 4,
                         !.fg = Glass, !.wrap = TRUE],
      [MultiField EXCEPT !.optional = TRUE, !.default = PyStr(<<"b">>), !.x = 0,
                         !.bg = Black, !.spacing = 1],
      [FormattedField EXCEPT !.optional = TRUE, !.default = PyStr(<<"a">>), !.x = 2,
                             !.bg = Black, !.padding = PaddingConfig(0, 0, 0, 1)] }

RECURSIVE FieldSeqs(_, _)
FieldSeqs(fields, n) ==
    IF n = 0 THEN {<<>>}
    ELSE LET shorter == FieldSeqs(fields, n - 1)
         IN  shorter \cup {Append(l, f) : l \in {s \in shorter : Len(s) = n - 1}, f \in fields}

Templates == {"template.png", "missing.png"}

DrawStart(fm, template, text_fields) ==
    [pc |-> "open", fm |-> fm, cnf |-> [template |-> template, text_fields |-> text_fields],
     i |-> 1, im |-> None, values |-> <<>>, marks |-> <<>>, error |-> "none", result |-> None]

DrawInit ==
    /\ wrap = Idle /\ tag = Idle /\ conf = Idle
    /\ \E fm \in Metadatas, template \in Templates, text_fields \in FieldSeqs(DrawFields, MaxFields) :
           drw = DrawStart(fm, template, text_fields)

ResolveInit ==
    /\ wrap = Idle /\ tag = Idle /\ conf = Idle
    /\ \E fm \in Metadatas, field \in ResolutionFields \cup WrapFields \cup FailingFields :
           drw = DrawStart(fm, "template.png", <<field>>)

\* im = Image.open(cnf.template)
DrawOpen ==
    /\ drw.pc = "open"
    /\ drw' = IF drw.cnf.template = "template.png"
              THEN [drw EXCEPT !.pc = "loop", !.im = NewImage(ImWidth)]
              ELSE Raise(drw, "TemplateLoadError")
    /\ UNCHANGED <<wrap, tag, conf>>

\* The field the loop is at.
Field == drw.cnf.text_fields[drw.i]

InLoop == drw.pc = "loop" /\ drw.i <= Len(drw.cnf.text_fields)

DrawMultiField ==
    /\ InLoop
    /\ Field.multi
    /\ LET values == ResolveMulti(drw.fm, Field)
           texts == [n \in DOMAIN values.value |-> values.value[n].v]
           drawn == DrawTagField(drw.im, texts, Field)
       IN  drw' = IF ~values.ok THEN Raise(drw, values.error)
                  ELSE IF ~drawn.ok THEN Raise(drw, drawn.error)
                  ELSE Drawn(drw, texts, drawn.im)
    /\ UNCHANGED <<wrap, tag, conf>>

DrawFormattedField ==
    /\ InLoop
    /\ ~Field.multi
    /\ Field.source.k = "list"
    /\ LET value == ResolveFormatted(drw.fm, Field)
           drawn == DrawTextField(drw.im, StrOf(value.value), Field)
       IN  drw' = IF ~value.ok THEN Raise(drw, value.error)
                  ELSE IF ~drawn.ok THEN Raise(drw, drawn.error)
                  ELSE Drawn(drw, StrOf(value.value), drawn.im)
    /\ UNCHANGED <<wrap, tag, conf>>

DrawValueField ==
    /\ InLoop
    /\ ~Field.multi
    /\ Field.source.k # "list"
    /\ LET value == ResolveValue(drw.fm, Field)
           drawn == DrawTextField(drw.im, StrOf(value.value), Field)
       IN  drw' = IF ~value.ok THEN Raise(drw, value.error)
                  ELSE IF ~drawn.ok THEN Raise(drw, drawn.error)
                  ELSE Drawn(drw, StrOf(value.value), drawn.im)
    /\ UNCHANGED <<wrap, tag, conf>>

\* return im
DrawReturn ==
    /\ drw.pc = "loop"
    /\ drw.i > Len(drw.cnf.text_fields)
    /\ drw' = [drw EXCEPT !.pc = "returned", !.result = drw.im]
    /\ UNCHANGED <<wrap, tag, conf>>

NextDraw == DrawOpen \/ DrawMultiField \/ DrawFormattedField \/ DrawValueField \/ DrawReturn

SpecDraw == DrawInit /\ [][NextDraw]_vars

SpecResolve == ResolveInit /\ [][NextDraw]_vars

(***************************************************************************)
(* Claims about draw (checked under SpecDraw and SpecResolve).             *)
(***************************************************************************)
\* The calls made on the image while field n was processed.
CallsOf(n) == ((IF n = 1 THEN 0 ELSE drw.marks[n - 1]) + 1)..drw.marks[n]

\* The columns a call paints.
Cols(call) ==
    IF call.fn = "text"
    THEN call.xy[1]..(call.xy[1] + TextWidth(call.font, call.text) - 1)
    ELSE call.xy[1]..call.xy[3]

\* The columns field n painted.
ColsOf(n) == UNION {Cols(drw.im.calls[m]) : m \in CallsOf(n)}

\* The field whose call is call number m.
FieldOfCall(m) == CHOOSE n \in DOMAIN drw.marks : m \in CallsOf(n)

\* The paint on top in column c.
Top(c) == drw.im.px[c][Len(drw.im.px[c])]

\* The source keys of a field, and those the metadata lacks.
SourceKeys(field) ==
    IF field.source.k = "list" THEN {field.source.v[n] : n \in DOMAIN field.source.v}
    ELSE {field.source.v}

Lacking(field) == SourceKeys(field) \ DOMAIN drw.fm

\* The default string a field provides for a source key.
DefaultString(field, key) ==
    IF field.default.k = "map" THEN MapGet(field.default, key, None).v ELSE field.default.v

\* The only field of the configuration has been processed, or has failed.
FirstFieldOver ==
    \/ drw.pc = "raised" /\ drw.error # "TemplateLoadError"
    \/ drw.pc \in {"loop", "returned"} /\ drw.i > 1

\* C2: a non-optional field whose source key the metadata lacks makes draw
\* fail with MissingFieldError; an optional field with a default has exactly
\* that default string as its value, be it a single-value field, a
\* multi-value field or a field of several sources, and be the default one
\* string or a per-source mapping.
C2_MissingOrDefault ==
    LET field == drw.cnf.text_fields[1]
    IN  (FirstFieldOver /\ Lacking(field) # {}) =>
            /\ ~field.optional => (drw.pc = "raised" /\ drw.error = "MissingFieldError")
            /\ (field.optional /\ field.default # None) =>
                   /\ drw.error # "MissingFieldError"
                   /\ (drw.values # <<>> /\ field.multi) =>
                          drw.values[1] = <<DefaultString(field, field.source.v)>>
                   /\ (drw.values # <<>> /\ ~field.multi /\ field.source.k = "str"
                         /\ field.format = None) =>
                          drw.values[1] = DefaultString(field, field.source.v)
                   /\ (drw.values # <<>> /\ field.source.k = "list") =>
                          drw.values[1] =
                              Format(field.format.v, <<>>,
                                     [n \in DOMAIN field.source.v |->
                                        <<field.source.v[n],
                                          IF field.source.v[n] \in DOMAIN drw.fm
                                          THEN drw.fm[field.source.v[n]]
                                          ELSE PyStr(DefaultString(field, field.source.v[n]))>>]).value

\* C3: once resolving, parsing, formatting or drawing a field has failed,
\* draw has raised that error: the failing field and the fields after it
\* are neither resolved nor drawn, nothing happens any more, and no image
\* is returned.
C3_FailureAborts ==
    /\ [](drw.pc # "idle" /\ drw.error # "none" =>
            /\ drw.pc = "raised"
            /\ drw.result = None
            /\ Len(drw.values) = drw.i - 1
            /\ Len(drw.marks) = drw.i - 1
            /\ drw.error # "TemplateLoadError" =>
                   Len(drw.im.calls) = IF drw.marks = <<>> THEN 0 ELSE drw.marks[Len(drw.marks)])
    /\ [][(drw.pc # "idle" /\ drw.error # "none") => drw' = drw]_vars

\* C3 witness: the second of three fields failed after the first was drawn.
C3_Witness ==
    /\ drw.pc = "raised"
    /\ drw.error \in {"MissingFieldError", "FormatError", "ParseError", "FontLoadError"}
    /\ drw.i = 2
    /\ Len(drw.cnf.text_fields) = 3
    /\ drw.marks[1] > 0

\* The calls of a processed field are those of its branch: for every value
\* the rectangle (when the field has a background) and then the text.
FieldCallsInOrder(n) ==
    LET field == drw.cnf.text_fields[n]
        per == IF Truthy(field.bg) THEN 2 ELSE 1
        first == IF n = 1 THEN 1 ELSE drw.marks[n - 1] + 1
    IN  /\ drw.marks[n] - first + 1 = per * (IF field.multi THEN Len(drw.values[n]) ELSE 1)
        /\ \A m \in CallsOf(n) :
               /\ drw.im.calls[m].fn =
                      IF Truthy(field.bg) /\ (m - first) % 2 = 0 THEN "rectangle" ELSE "text"
               /\ drw.im.calls[m].fn = "text" =>
                      /\ drw.im.calls[m].xy[2] = field.y
                      /\ drw.im.calls[m].fill = ToPilColor(field.fg)
                      /\ m - first < per => drw.im.calls[m].xy = <<field.x, field.y>>

\* C4: draw processes the fields once each, in configuration order, and
\* within one field draws the rectangle before the text; where two fields
\* overlap, the paint on top is the later field's.
C4_FieldOrder ==
    drw.pc \in {"loop", "returned"} =>
        /\ Len(drw.marks) = drw.i - 1
        /\ Len(drw.values) = drw.i - 1
        /\ drw.i - 1 <= Len(drw.cnf.text_fields)
        /\ drw.pc = "returned" => drw.i - 1 = Len(drw.cnf.text_fields)
        /\ \A n \in DOMAIN drw.marks : FieldCallsInOrder(n)
        /\ \A n \in DOMAIN drw.marks : \A m \in DOMAIN drw.marks :
               n < m => \A c \in (ColsOf(n) \cap ColsOf(m)) \cap DOMAIN drw.im.px :
                            FieldOfCall(Top(c)) >= m

\* C4 witness: three fields drawn, two of them with a background, the
\* second covering columns of the first.
C4_Witness ==
    /\ drw.pc = "returned"
    /\ Len(drw.cnf.text_fields) = 3
    /\ Truthy(drw.cnf.text_fields[1].bg)
    /\ Truthy(drw.cnf.text_fields[2].bg)
    /\ drw.cnf.text_fields[1] # drw.cnf.text_fields[2]
    /\ \E c \in DOMAIN drw.im.px :
           c \in ColsOf(1) \cap ColsOf(2) /\ FieldOfCall(Top(c)) = 2

\* The text calls of the image, in order.
Texts == SelectSeq(drw.im.calls, LAMBDA c : c.fn = "text")

\* C9: the text of a field with wrap set is wrapped to the field's
\* max_width whenever max_width is set, whatever integer it is set to, and
\* to the image width minus x only when it is not set; the text of a field
\* without wrap is drawn unwrapped.
C9_WrapBudget ==
    LET field == drw.cnf.text_fields[1]
    IN  (drw.pc = "returned" /\ ~field.multi) =>
            Texts[1].text =
                IF field.wrap
                THEN WrapFontText(Texts[1].font, drw.values[1], WrapBudgetIfSet(drw.im, field))
                ELSE drw.values[1]

=============================================================================
